---- MODULE Spec2Model ----
(***************************************************************************)
(* Model of the sync engine of sync_notion_db: the pull pipeline           *)
(* (incremental_sync.incremental_pull, autonote_pull.pull_from_notion),    *)
(* the push pipeline (check_local_changes, push_local_changes), the ledger *)
(* (.notion_sync.json) and the content codec of sync_utils / autonote.     *)
(*                                                                         *)
(* Text is a sequence of one-character strings, so that the codec is       *)
(* computed character by character as the Python code computes it.         *)
(***************************************************************************)
EXTENDS Integers, Sequences, FiniteSets, TLC

(***************************************************************************)
(* Bounds of the model.                                                    *)
(***************************************************************************)
\* The clock runs from 0 to MaxTime.
MaxTime == 1
\* Number of items the remote service returns per query page.
PageSize == 1
\* Number of commands and edits (on the service, by the user) in a behaviour.
MaxSteps == 4

\* metadata["last_sync"] == "" (never synced) is modelled as this timestamp.
NoSync == -1

(***************************************************************************)
(* Text helpers (Python str operations).                                   *)
(***************************************************************************)
NL == "\n"
Delim == <<"-", "-", "-">>

Digits == <<"0", "1", "2", "3", "4", "5", "6", "7", "8", "9">>
Letters == {"a", "b", "c", "d", "e", "f", "g", "h", "i", "j", "k", "l", "m",
            "n", "o", "p", "q", "r", "s", "t", "u", "v", "w", "x", "y", "z",
            "A", "B", "C", "D", "E", "F", "G", "H", "I", "J", "K", "L", "M",
            "N", "O", "P", "Q", "R", "S", "T", "U", "V", "W", "X", "Y", "Z"}

\* str.isalnum() of one character
IsAlnum(c) == c \in Letters \/ c \in {Digits[k] : k \in 1..10}

\* str.isspace() of one character
IsSpace(c) == c \in {" ", NL, "\t", "\r"}

Range(s) == {s[k] : k \in DOMAIN s}

\* s.startswith(p)
StartsWith(s, p) == Len(s) >= Len(p) /\ SubSeq(s, 1, Len(p)) = p

\* s[k:] with a 0-based Python index k
From(s, k) == SubSeq(s, k + 1, Len(s))

\* s.find(p, start): the 0-based index of the first occurrence of p at or
\* after start, or -1
Find(s, p, start) ==
    LET hits == {k \in start..(Len(s) - Len(p)) : SubSeq(s, k + 1, k + Len(p)) = p}
    IN  IF hits = {} THEN -1 ELSE CHOOSE k \in hits : \A h \in hits : k <= h

\* s.lstrip(), s.rstrip(), s.strip()
RECURSIVE LStrip(_)
LStrip(s) == IF s # <<>> /\ IsSpace(Head(s)) THEN LStrip(Tail(s)) ELSE s

RECURSIVE RStrip(_)
RStrip(s) ==
    IF s # <<>> /\ IsSpace(s[Len(s)]) THEN RStrip(SubSeq(s, 1, Len(s) - 1)) ELSE s

Strip(s) == RStrip(LStrip(s))

\* s.split(sep) for a one-character separator: a sequence of texts
RECURSIVE Split(_, _)
Split(s, sep) ==
    LET k == Find(s, <<sep>>, 0)
    IN  IF k = -1 THEN <<s>> ELSE <<SubSeq(s, 1, k)>> \o Split(From(s, k + 1), sep)

\* s.replace(c, "") for a one-character c
Remove(s, c) == SelectSeq(s, LAMBDA x : x # c)

\* the concatenation of a sequence of texts
RECURSIVE Concat(_)
Concat(ss) == IF ss = <<>> THEN <<>> ELSE Head(ss) \o Concat(Tail(ss))

\* datetime / Notion timestamps are rendered as one digit
TsStr(t) == <<Digits[t + 1]>>

(***************************************************************************)
(* Content codec, pull direction (sync_utils.py).                          *)
(***************************************************************************)
\* A block is [type, text, checked, language].
Block(type, text) == [type |-> type, text |-> text, checked |-> FALSE, language |-> <<>>]

\* The code fence: three backquotes, written here as three apostrophes (a
\* backquote cannot appear in a string of this language).
Fence == <<"'", "'", "'">>

\* A rendering that writes a block of any other type as a paragraph.
BlockToMarkdown_OtherAsParagraph(b) ==
    CASE b.type = "paragraph"          -> b.text \o <<NL, NL>>
      [] b.type = "heading_1"          -> <<"#", " ">> \o b.text \o <<NL, NL>>
      [] b.type = "heading_2"          -> <<"#", "#", " ">> \o b.text \o <<NL, NL>>
      [] b.type = "heading_3"          -> <<"#", "#", "#", " ">> \o b.text \o <<NL, NL>>
      [] b.type = "bulleted_list_item" -> <<"-", " ">> \o b.text \o <<NL>>
      [] b.type = "numbered_list_item" -> <<"1", ".", " ">> \o b.text \o <<NL>>
      [] b.type = "to_do"              ->
            <<"-", " ", "[", (IF b.checked THEN "x" ELSE " "), "]", " ">> \o b.text \o <<NL>>
      [] b.type = "code"               ->
            Fence \o b.language \o <<NL>> \o b.text \o <<NL>> \o Fence \o <<NL, NL>>
      [] OTHER                         -> b.text \o <<NL, NL>>

\* One block of notion_blocks_to_markdown.
BlockToMarkdown(b) ==
    CASE b.type = "paragraph"          -> b.text \o <<NL, NL>>
      [] b.type = "heading_1"          -> <<"#", " ">> \o b.text \o <<NL, NL>>
      [] b.type = "heading_2"          -> <<"#", "#", " ">> \o b.text \o <<NL, NL>>
      [] b.type = "heading_3"          -> <<"#", "#", "#", " ">> \o b.text \o <<NL, NL>>
      [] b.type = "bulleted_list_item" -> <<"-", " ">> \o b.text \o <<NL>>
      [] b.type = "numbered_list_item" -> <<"1", ".", " ">> \o b.text \o <<NL>>
      [] b.type = "to_do"              ->
            <<"-", " ", "[", (IF b.checked THEN "x" ELSE " "), "]", " ">> \o b.text \o <<NL>>
      [] b.type = "code"               ->
            Fence \o b.language \o <<NL>> \o b.text \o <<NL>> \o Fence \o <<NL, NL>>
      [] OTHER                         -> <<>>

notion_blocks_to_markdown(blocks) ==
    Concat([k \in DOMAIN blocks |-> BlockToMarkdown(blocks[k])])

\* A header without the notion_id line.
generate_frontmatter_NoId(title, page_id, last_edited_time) ==
    Delim \o <<NL>>
    \o <<"l", "a", "s", "t", "_", "e", "d", "i", "t", "e", "d", "_", "t", "i", "m", "e", ":", " ">>
    \o last_edited_time \o <<NL>>
    \o (IF title # <<>>
        THEN <<"t", "i", "t", "l", "e", ":", " ", "\"">> \o title \o <<"\"", NL>>
        ELSE <<>>)
    \o Delim \o <<NL, NL>>

\* generate_frontmatter for a page whose only property is its title property
\* (title = <<>> stands for an empty title list: no title line is written).
generate_frontmatter(title, page_id, last_edited_time) ==
    Delim \o <<NL>>
    \o <<"n", "o", "t", "i", "o", "n", "_", "i", "d", ":", " ">> \o page_id \o <<NL>>
    \o <<"l", "a", "s", "t", "_", "e", "d", "i", "t", "e", "d", "_", "t", "i", "m", "e", ":", " ">>
    \o last_edited_time \o <<NL>>
    \o (IF title # <<>>
        THEN <<"t", "i", "t", "l", "e", ":", " ", "\"">> \o title \o <<"\"", NL>>
        ELSE <<>>)
    \o Delim \o <<NL, NL>>

\* calculate_content_hash: MD5 is modelled as a collision-free digest of the
\* text it is given.
calculate_content_hash(content) == <<"md5", content>>

\* A sanitization that keeps only alphanumerics, hyphen and underscore.
SanitizeChar_SpaceReplaced(c) == IF IsAlnum(c) \/ c \in {"-", "_"} THEN c ELSE "_"

\* The filename save_page_to_file derives from a title.
SanitizeChar(c) == IF IsAlnum(c) \/ c \in {" ", "-", "_"} THEN c ELSE "_"

Filename(title) ==
    LET t == IF title # <<>> THEN title ELSE <<"U", "n", "t", "i", "t", "l", "e", "d">>
    IN  [k \in DOMAIN t |-> SanitizeChar(t[k])] \o <<".", "m", "d">>

\* The id save_page_to_file writes into the header: the page id without hyphens.
HeaderId(page_id) == Remove(page_id, "-")

\* The text save_page_to_file writes for a page and its fetched blocks.
FullContent(page, blocks) ==
    generate_frontmatter(page.title, HeaderId(page.id), TsStr(page.last_edited_time))
    \o notion_blocks_to_markdown(blocks)

\* A save that leaves a file that already exists as it is.
save_page_to_file_KeepExisting(fs, filepath, full_content) ==
    IF filepath \in DOMAIN fs THEN fs ELSE (filepath :> full_content) @@ fs

\* A save that opens the file for appending.
save_page_to_file_Append(fs, filepath, full_content) ==
    IF filepath \in DOMAIN fs
    THEN [fs EXCEPT ![filepath] = @ \o full_content]
    ELSE (filepath :> full_content) @@ fs

\* save_page_to_file, lines 233-235: the directory fs after the text was
\* written to filepath, replacing what the file held.
save_page_to_file(fs, filepath, full_content) ==
    (filepath :> full_content) @@ fs

(***************************************************************************)
(* Content codec, push direction (incremental_sync.py, autonote.py).       *)
(***************************************************************************)
NoId == <<>>

\* A header parser that returns what follows "notion_id:" as it stands.
extract_notion_id_from_frontmatter_Unstripped(content) ==
    IF ~StartsWith(content, Delim) THEN NoId
    ELSE LET end_frontmatter == Find(content, Delim, 3)
         IN  IF end_frontmatter = -1 THEN NoId
             ELSE LET frontmatter == Strip(SubSeq(content, 4, end_frontmatter))
                      lines == Split(frontmatter, NL)
                      key == <<"n", "o", "t", "i", "o", "n", "_", "i", "d", ":">>
                      hits == {k \in DOMAIN lines : StartsWith(lines[k], key)}
                  IN  IF hits = {} THEN NoId
                      ELSE LET k == CHOOSE h \in hits : \A g \in hits : h <= g
                           IN  From(lines[k], Find(lines[k], <<":">>, 0) + 1)

\* A header parser that reads to the end of the text when the closing
\* delimiter is not found.
extract_notion_id_from_frontmatter_Unclosed(content) ==
    IF ~StartsWith(content, Delim) THEN NoId
    ELSE LET found == Find(content, Delim, 3)
             end_frontmatter == IF found = -1 THEN Len(content) ELSE found
             frontmatter == Strip(SubSeq(content, 4, end_frontmatter))
             lines == Split(frontmatter, NL)
             key == <<"n", "o", "t", "i", "o", "n", "_", "i", "d", ":">>
             hits == {k \in DOMAIN lines : StartsWith(lines[k], key)}
         IN  IF hits = {} THEN NoId
             ELSE LET k == CHOOSE h \in hits : \A g \in hits : h <= g
                  IN  Strip(From(lines[k], Find(lines[k], <<":">>, 0) + 1))

\* extract_notion_id_from_frontmatter on a file's text; NoId stands for None
\* (an empty id is falsy for the caller as well).
extract_notion_id_from_frontmatter(content) ==
    IF ~StartsWith(content, Delim) THEN NoId
    ELSE LET end_frontmatter == Find(content, Delim, 3)
         IN  IF end_frontmatter = -1 THEN NoId
             ELSE LET frontmatter == Strip(SubSeq(content, 4, end_frontmatter))
                      lines == Split(frontmatter, NL)
                      key == <<"n", "o", "t", "i", "o", "n", "_", "i", "d", ":">>
                      hits == {k \in DOMAIN lines : StartsWith(lines[k], key)}
                  IN  IF hits = {} THEN NoId
                      ELSE LET k == CHOOSE h \in hits : \A g \in hits : h <= g
                           IN  Strip(From(lines[k], Find(lines[k], <<":">>, 0) + 1))

\* extract_content_from_markdown on a file's text
extract_content_from_markdown(content) ==
    IF ~StartsWith(content, Delim) THEN content
    ELSE LET end_frontmatter == Find(content, Delim, 3)
         IN  IF end_frontmatter = -1 THEN content
             ELSE Strip(From(content, end_frontmatter + 3))

\* The block update_page_content builds for one stripped, non-empty line.
LineToBlock(line) ==
    IF StartsWith(line, <<"#", " ">>) THEN Block("heading_1", From(line, 2))
    ELSE IF StartsWith(line, <<"#", "#", " ">>) THEN Block("heading_2", From(line, 3))
    ELSE IF StartsWith(line, <<"#", "#", "#", " ">>) THEN Block("heading_3", From(line, 4))
    ELSE Block("paragraph", line)

\* The children update_page_content sends for a markdown text.
MarkdownToBlocks(markdown_content) ==
    LET lines == Split(Strip(markdown_content), NL)
        stripped == [k \in DOMAIN lines |-> Strip(lines[k])]
        kept == SelectSeq(stripped, LAMBDA l : l # <<>>)
    IN  [k \in DOMAIN kept |-> LineToBlock(kept[k])]

(***************************************************************************)
(* The remote database and the local directory.                            *)
(***************************************************************************)
\* Page ids as the service returns them: one with a hyphen, one without.
ID_A == <<"a", "-", "1">>
ID_B == <<"b", "2">>

\* The pages of the database, in the order a query returns them.
Database == <<ID_A, ID_B>>
Ids == Range(Database)

\* The titles of the pages: "A/B" and "A_B" sanitize to one filename,
\* "A/B" and "A B" to two.
TitleChoices ==
    { (ID_A :> <<"A", "/", "B">>) @@ (ID_B :> <<"A", "_", "B">>),
      (ID_A :> <<"A", "/", "B">>) @@ (ID_B :> <<"A", " ", "B">>) }

\* The block contents a remote edit chooses from.
BlockChoices ==
    { <<Block("paragraph", <<"x">>)>>, <<Block("heading_1", <<"y">>)>> }

\* The blocks every page starts with.
InitialBlocks == <<Block("paragraph", <<"x">>)>>

\* The bodies a user edit chooses from: what a pull renders, and a text of
\* the user's own.
LocalBodies ==
    {notion_blocks_to_markdown(InitialBlocks), <<"z", NL>>}

Empty == <<>>   \* the function with the empty domain: {} as a Python dict

VARIABLES
    now,            \* the clock
    remote,         \* page id -> [title, last_edited_time, blocks]
    files,          \* filepath -> text of the file, for the files that exist
    sync_json,      \* the content of .notion_sync.json, or NoFile
    pc,             \* idle | paginate | create_metadata | process | push
    cmd,            \* the command that runs: none | pull | push | sync
    mode,           \* its pull: inc (incremental_pull) | full (pull_from_notion)
    last_sync_time, \* incremental_pull's last_sync_time
    data,           \* the last query response: [has_more, next_cursor]
    modified_pages, \* the aggregated query results
    metadata,       \* the in-memory ledger of the pull
    i,              \* index of the page being processed
    updated_files, new_files, saved_files,  \* the results of the pulls
    modified_files, \* check_local_changes' result, the input of push
    j,              \* index of the file being pushed
    pushed_files,   \* the result of push_local_changes
    steps,          \* commands and edits so far
    \* History variables: they record what happened and are read by no action.
    run,            \* the log of the running command
    edited,         \* entries whose file the user edited since the entry was written
    clobbered,      \* entries whose file a pull of another page overwrote since
    remote_dirty,   \* pages edited on the service since they were last synced
    skipped,        \* pages an incremental pull skipped (failed fetch), neither
                    \* written nor edited on the service since
    snap,           \* files and fingerprints when the last pull command returned
    \* The codec on its own (specification SpecCodec).
    codec,          \* a page, the text rendered for it and what is parsed from it
    \* A command that is terminated (specification SpecCrash).
    torn,           \* the ledger file holds the beginning of a document only
    \* Two processes on one directory (specification SpecTwo).
    procs           \* process -> the locals of its pull

env == <<now, remote, files, sync_json>>
ctl == <<pc, cmd, mode>>
pull_locals == <<last_sync_time, data, modified_pages, metadata, i,
                 updated_files, new_files, saved_files>>
push_locals == <<modified_files, j, pushed_files>>
history == <<run, edited, clobbered, remote_dirty, skipped, snap>>
aside == <<codec, torn, procs>>
vars == <<env, ctl, pull_locals, push_locals, steps, history, aside>>

NoData == [has_more |-> FALSE, next_cursor |-> <<>>]

\* The ledger create_sync_metadata starts from when there is no ledger file,
\* and the value of sync_json while the file does not exist.
NoMetadata == [exists |-> TRUE, last_sync |-> NoSync, files |-> Empty, order |-> <<>>]
NoFile == [exists |-> FALSE, last_sync |-> NoSync, files |-> Empty, order |-> <<>>]

\* The log of a command that has made no request yet.
NewRun ==
    [ok |-> TRUE,           \* every request so far succeeded
     query_ok |-> TRUE,     \* every query request so far succeeded
     tainted |-> FALSE,     \* the service was edited while the command ran
     last |-> "none",       \* outcome of the last loop iteration: ok | failed | skipped
     known0 |-> {},         \* the ledger's keys when the command started
     matched |-> <<>>,      \* the pages the first query request matched
     fetch_failed |-> {},   \* pages whose blocks request failed
     written |-> {},        \* pages written and recorded
     push_failed |-> {},    \* files whose update request failed
     pushed |-> {},         \* pages updated on the service
     conflict |-> {}]       \* pages changed on both sides when a sync started

NoSnap ==
    [valid |-> FALSE, mode |-> "inc", ok |-> FALSE, files |-> Empty, hashes |-> Empty,
     synced |-> FALSE]      \* the last command was a sync and all its requests succeeded

\* The value of codec while the sync engine runs.
NoCodec ==
    [stage |-> "none",
     page |-> [id |-> <<>>, title |-> <<>>, last_edited_time |-> 0],
     blocks |-> <<>>,       \* the blocks fetched for the page
     text |-> <<>>,         \* the text save_page_to_file writes
     notion_id |-> <<>>,    \* extract_notion_id_from_frontmatter of the text
     content |-> <<>>,      \* extract_content_from_markdown of the text
     children |-> <<>>]     \* the blocks update_page_content builds from the content

\* The processes of SpecTwo, and their locals before they start.
Procs == {1, 2}
NoProcs ==
    [p \in Procs |->
        [pc |-> "idle",             \* idle | create_metadata | process | done
         modified_pages |-> <<>>,   \* the aggregated query results
         metadata |-> NoMetadata,   \* the in-memory ledger
         i |-> 1,                   \* index of the page being processed
         recorded |-> {}]]          \* history: the pages the process recorded

\* A command or an edit is one of at most MaxSteps.
TakeStep == steps < MaxSteps /\ steps' = steps + 1

\* The values the locals have when no command runs.
LocalsReset ==
    /\ last_sync_time' = NoSync
    /\ data' = NoData
    /\ modified_pages' = <<>>
    /\ metadata' = NoMetadata
    /\ i' = 1
    /\ updated_files' = <<>>
    /\ new_files' = <<>>
    /\ saved_files' = <<>>
    /\ modified_files' = <<>>
    /\ j' = 1
    /\ pushed_files' = <<>>

\* Before the first command: no file, no ledger, no command running.
EngineInit ==
    /\ now = 0
    /\ \E t \in TitleChoices :
          remote = [id \in Ids |->
                      [title |-> t[id], last_edited_time |-> 0, blocks |-> InitialBlocks]]
    /\ files = Empty
    /\ sync_json = NoFile
    /\ pc = "idle" /\ cmd = "none" /\ mode = "inc"
    /\ last_sync_time = NoSync
    /\ data = NoData
    /\ modified_pages = <<>>
    /\ metadata = NoMetadata
    /\ i = 1
    /\ updated_files = <<>> /\ new_files = <<>> /\ saved_files = <<>>
    /\ modified_files = <<>> /\ j = 1 /\ pushed_files = <<>>
    /\ steps = 0
    /\ run = NewRun
    /\ edited = {} /\ clobbered = {} /\ remote_dirty = {} /\ skipped = {}
    /\ snap = NoSnap

Init == EngineInit /\ codec = NoCodec /\ torn = FALSE /\ procs = NoProcs

(***************************************************************************)
(* The remote service (the collaborator behind the HTTP requests).         *)
(***************************************************************************)
Min(a, b) == IF a <= b THEN a ELSE b

\* The page object a query returns for a page.
PageOf(id) ==
    [id |-> id, title |-> remote[id].title,
     last_edited_time |-> remote[id].last_edited_time]

\* A query whose filter is "after" instead of "on_or_after".
Matching_After(since) ==
    LET ids == SelectSeq(Database,
                   LAMBDA id : since = NoSync \/ remote[id].last_edited_time > since)
    IN  [k \in DOMAIN ids |-> PageOf(ids[k])]

\* The pages a query matches: all of them without a filter (since = NoSync),
\* otherwise those with last_edited_time on_or_after since.
Matching(since) ==
    LET ids == SelectSeq(Database,
                   LAMBDA id : since = NoSync \/ remote[id].last_edited_time >= since)
    IN  [k \in DOMAIN ids |-> PageOf(ids[k])]

\* One response of the query endpoint for the pages not yet delivered.
Response(rest) ==
    [results |-> SubSeq(rest, 1, Min(PageSize, Len(rest))),
     has_more |-> Len(rest) > PageSize,
     next_cursor |-> SubSeq(rest, PageSize + 1, Len(rest))]

\* The pages a blocks request for an id (with or without hyphens) addresses.
PagesWithId(notion_id) == {id \in Ids : HeaderId(id) = HeaderId(notion_id)}

\* The page after update_page_content's request succeeded.
UpdatedPage(page, children) ==
    [page EXCEPT !.blocks = children, !.last_edited_time = now]

\* Two pages whose titles give one filename.
Collides(id) ==
    \E other \in Ids \ {id} : Filename(remote[other].title) = Filename(remote[id].title)

(***************************************************************************)
(* The ledger (.notion_sync.json): [last_sync, files, order], order being  *)
(* the insertion order of the keys of "files".                             *)
(***************************************************************************)
\* get_last_sync_time
get_last_sync_time ==
    IF sync_json.exists THEN sync_json.last_sync ELSE NoSync

\* create_sync_metadata: the loaded (or fresh) ledger with last_sync = now.
\* Nothing is written to the file here.
create_sync_metadata ==
    [(IF sync_json.exists THEN sync_json ELSE NoMetadata) EXCEPT !.last_sync = now]

\* An upsert that writes the ledger with the last sync time the file holds.
update_sync_metadata_OldLastSync(md, page_id, filepath, content_hash, last_edited_time) ==
    [md EXCEPT
        !.files = (page_id :> [local_path |-> filepath,
                               content_hash |-> content_hash,
                               last_edited_time |-> last_edited_time,
                               last_synced |-> now]) @@ md.files,
        !.order = IF page_id \in DOMAIN md.files THEN md.order
                  ELSE Append(md.order, page_id),
        !.last_sync = sync_json.last_sync]

\* An upsert that stamps every entry with the time of the write.
update_sync_metadata_StampAll(md, page_id, filepath, content_hash, last_edited_time) ==
    [md EXCEPT
        !.files = [id \in DOMAIN md.files \cup {page_id} |->
                     IF id = page_id
                     THEN [local_path |-> filepath,
                           content_hash |-> content_hash,
                           last_edited_time |-> last_edited_time,
                           last_synced |-> now]
                     ELSE [md.files[id] EXCEPT !.last_synced = now]],
        !.order = IF page_id \in DOMAIN md.files THEN md.order
                  ELSE Append(md.order, page_id)]

\* An upsert that keeps the fingerprint of an entry that exists.
update_sync_metadata_KeepHash(md, page_id, filepath, content_hash, last_edited_time) ==
    [md EXCEPT
        !.files = (page_id :> [local_path |-> filepath,
                               content_hash |-> IF page_id \in DOMAIN md.files
                                                THEN md.files[page_id].content_hash
                                                ELSE content_hash,
                               last_edited_time |-> last_edited_time,
                               last_synced |-> now]) @@ md.files,
        !.order = IF page_id \in DOMAIN md.files THEN md.order
                  ELSE Append(md.order, page_id)]

\* An upsert that writes a ledger holding the new entry alone.
update_sync_metadata_OnlyEntry(md, page_id, filepath, content_hash, last_edited_time) ==
    [md EXCEPT
        !.files = (page_id :> [local_path |-> filepath,
                               content_hash |-> content_hash,
                               last_edited_time |-> last_edited_time,
                               last_synced |-> now]),
        !.order = <<page_id>>]

\* update_sync_metadata: the ledger after the upsert, which is written to
\* the ledger file.
update_sync_metadata(md, page_id, filepath, content_hash, last_edited_time) ==
    [md EXCEPT
        !.files = (page_id :> [local_path |-> filepath,
                               content_hash |-> content_hash,
                               last_edited_time |-> last_edited_time,
                               last_synced |-> now]) @@ md.files,
        !.order = IF page_id \in DOMAIN md.files THEN md.order
                  ELSE Append(md.order, page_id)]

\* A membership test made after the page was recorded.
is_new_page_AfterWrite(page_id, md) ==
    page_id \notin DOMAIN update_sync_metadata(md, page_id, <<>>, <<>>, 0).files

\* incremental_pull, line 161: is_new_page
is_new_page(page_id, md) == page_id \notin DOMAIN md.files

\* A test that takes a file that no longer exists for a modified one.
EntryModified_MissingCounts(entry, fs) ==
    /\ entry.local_path # <<>>
    /\ \/ entry.local_path \notin DOMAIN fs
       \/ calculate_content_hash(fs[entry.local_path]) # entry.content_hash

\* A test that hashes the body of the file instead of the whole file.
EntryModified_BodyOnly(entry, fs) ==
    /\ entry.local_path # <<>>
    /\ entry.local_path \in DOMAIN fs
    /\ calculate_content_hash(extract_content_from_markdown(fs[entry.local_path]))
           # entry.content_hash

\* check_local_changes, lines 213-231: the test of one ledger entry.
EntryModified(entry, fs) ==
    /\ entry.local_path # <<>>
    /\ entry.local_path \in DOMAIN fs
    /\ calculate_content_hash(fs[entry.local_path]) # entry.content_hash

\* check_local_changes for a ledger file and a directory content.
check_local_changes(ledger, fs) ==
    IF ~ledger.exists THEN <<>>
    ELSE LET hit == SelectSeq(ledger.order,
                        LAMBDA id : EntryModified(ledger.files[id], fs))
         IN  [k \in DOMAIN hit |-> ledger.files[hit[k]].local_path]

\* A push that fingerprints the body it sent instead of the whole file.
PushedMetadata_BodyHash(ledger, notion_id, content) ==
    IF notion_id \in DOMAIN ledger.files
    THEN [ledger EXCEPT
            !.files[notion_id].content_hash =
                calculate_content_hash(extract_content_from_markdown(content)),
            !.files[notion_id].last_synced = now]
    ELSE ledger

\* A push that also sets the ledger's last sync time.
PushedMetadata_StampLastSync(ledger, notion_id, content) ==
    IF notion_id \in DOMAIN ledger.files
    THEN [ledger EXCEPT
            !.files[notion_id].content_hash = calculate_content_hash(content),
            !.files[notion_id].last_synced = now,
            !.last_sync = now]
    ELSE ledger

\* push_local_changes, lines 333-341: the ledger after a successful push of
\* a file with header id notion_id and text content.
PushedMetadata(ledger, notion_id, content) ==
    IF notion_id \in DOMAIN ledger.files
    THEN [ledger EXCEPT
            !.files[notion_id].content_hash = calculate_content_hash(content),
            !.files[notion_id].last_synced = now]
    ELSE ledger

\* A push that records the file whether or not the update request succeeded.
LedgerAfterPush_IgnoringFailure(success, ledger, notion_id, content) ==
    IF ledger.exists THEN PushedMetadata(ledger, notion_id, content) ELSE ledger

\* push_local_changes, lines 323-347: the ledger file after the update
\* request for a file returned.
LedgerAfterPush(success, ledger, notion_id, content) ==
    IF success /\ ledger.exists
    THEN PushedMetadata(ledger, notion_id, content)
    ELSE ledger

\* The keys of the ledger whose entry records filepath.
EntriesOf(ledger, filepath) ==
    {id \in DOMAIN ledger.files : ledger.files[id].local_path = filepath}

\* The fingerprints of a ledger.
Hashes(ledger) == [id \in DOMAIN ledger.files |-> ledger.files[id].content_hash]

(***************************************************************************)
(* Pull: incremental_pull and pull_from_notion.                            *)
(***************************************************************************)
\* A pull that takes the first response for the whole result.
AfterResponse_IgnoringHasMore(has_more) == "create_metadata"

\* A pagination loop that never takes has_more = false for the end.
AfterResponse_NeverDone(has_more) == "paginate"

\* The loops over has_more: what follows a query response.
AfterResponse(has_more) == IF has_more THEN "paginate" ELSE "create_metadata"

\* The first query request of a pull (fetch_recently_modified_pages lines
\* 64-92, fetch_all_pages_from_database lines 22-23): on a failed request
\* the result list is empty and no continuation is asked for.
FirstRequest(since, ok) ==
    LET resp == Response(Matching(since))
    IN  IF ok
        THEN /\ modified_pages' = resp.results
             /\ data' = [has_more |-> resp.has_more, next_cursor |-> resp.next_cursor]
             /\ pc' = AfterResponse(resp.has_more)
        ELSE /\ modified_pages' = <<>>
             /\ data' = NoData
             /\ pc' = "create_metadata"

\* The pages changed on both sides since they were last synced, each in a
\* file of its own.
Conflicts ==
    {id \in DOMAIN sync_json.files :
        /\ id \in remote_dirty
        /\ id \in edited
        /\ EntryModified(sync_json.files[id], files)
        /\ ~Collides(id)}

\* The log of a command that starts with a pull with filter since.
PullLog(c, since, ok) ==
    [NewRun EXCEPT !.ok = ok, !.query_ok = ok,
                   !.known0 = DOMAIN sync_json.files,
                   !.matched = Matching(since),
                   !.conflict = IF c = "sync" THEN Conflicts ELSE {}]

\* A command starts with an incremental pull: get_last_sync_time, then the
\* first request, filtered when a last sync time exists.
BeginIncrementalPull(c, ok) ==
    /\ pc = "idle"
    /\ TakeStep
    /\ cmd' = c /\ mode' = "inc"
    /\ last_sync_time' = get_last_sync_time
    /\ FirstRequest(get_last_sync_time, ok)
    /\ run' = PullLog(c, get_last_sync_time, ok)
    /\ UNCHANGED <<env, metadata, i, updated_files, new_files, saved_files, push_locals,
                   edited, clobbered, remote_dirty, skipped, snap>>
    /\ UNCHANGED aside

\* A command starts with a full pull: the first request has no filter.
BeginFullPull(c, ok) ==
    /\ pc = "idle"
    /\ TakeStep
    /\ cmd' = c /\ mode' = "full"
    /\ FirstRequest(NoSync, ok)
    /\ run' = PullLog(c, NoSync, ok)
    /\ UNCHANGED <<env, last_sync_time, metadata, i, updated_files, new_files,
                   saved_files, push_locals,
                   edited, clobbered, remote_dirty, skipped, snap>>
    /\ UNCHANGED aside

\* One continuation request (the while loops over has_more).  A failed
\* request ends the loop with the pages aggregated so far.
Paginate(ok) ==
    /\ pc = "paginate"
    /\ LET resp == Response(data.next_cursor)
       IN  IF ok
           THEN /\ modified_pages' = modified_pages \o resp.results
                /\ data' = [has_more |-> resp.has_more, next_cursor |-> resp.next_cursor]
                /\ pc' = AfterResponse(resp.has_more)
           ELSE /\ pc' = "create_metadata"
                /\ UNCHANGED <<modified_pages, data>>
    /\ run' = [run EXCEPT !.ok = @ /\ ok, !.query_ok = @ /\ ok]
    /\ UNCHANGED <<env, cmd, mode, last_sync_time, metadata, i, updated_files,
                   new_files, saved_files, push_locals, steps,
                   edited, clobbered, remote_dirty, skipped, snap>>
    /\ UNCHANGED aside

\* create_sync_metadata, called after the query has been aggregated.
CreateMetadata ==
    /\ pc = "create_metadata"
    /\ metadata' = create_sync_metadata
    /\ i' = 1
    /\ pc' = "process"
    /\ UNCHANGED <<env, cmd, mode, last_sync_time, data, modified_pages,
                   updated_files, new_files, saved_files, push_locals, steps, history>>
    /\ UNCHANGED aside

\* A page loop that gives up at the first page whose fetch fails.
AfterPage_AbortOnFailure(ok, k) == IF ok THEN k + 1 ELSE Len(modified_pages) + 1

\* The index the page loop goes on with after iteration k: the else branch
\* of `if page_content` only prints, the for loop continues.
AfterPage(ok, k) == k + 1

\* One iteration of the page loop.  With the blocks fetched, the file is
\* written (save_page_to_file), hashed, recorded (update_sync_metadata, which
\* writes the ledger file) and classified; a failed fetch skips the page.
ProcessPage(ok) ==
    /\ pc = "process"
    /\ i <= Len(modified_pages)
    /\ LET page == modified_pages[i]
           filepath == Filename(page.title)
           full_content == FullContent(page, remote[page.id].blocks)
           saved == save_page_to_file(files, filepath, full_content)
           content_hash == calculate_content_hash(saved[filepath])
           md == update_sync_metadata(metadata, page.id, filepath, content_hash,
                                      page.last_edited_time)
       IN  IF ok
           THEN /\ files' = saved
                /\ metadata' = md
                /\ sync_json' = md
                /\ IF mode = "full"
                   THEN /\ saved_files' = Append(saved_files, filepath)
                        /\ UNCHANGED <<new_files, updated_files>>
                   ELSE /\ IF is_new_page(page.id, metadata)
                           THEN /\ new_files' = Append(new_files, filepath)
                                /\ UNCHANGED updated_files
                           ELSE /\ updated_files' = Append(updated_files, filepath)
                                /\ UNCHANGED new_files
                        /\ UNCHANGED saved_files
                /\ run' = [run EXCEPT !.last = "ok", !.written = @ \cup {page.id}]
                /\ edited' = edited \ {page.id}
                /\ clobbered' = (clobbered \ {page.id})
                                   \cup (EntriesOf(metadata, filepath) \ {page.id})
                /\ remote_dirty' = remote_dirty \ {page.id}
                /\ skipped' = skipped \ {page.id}
           ELSE /\ run' = [run EXCEPT !.last = "failed", !.ok = FALSE,
                                      !.fetch_failed = @ \cup {page.id}]
                /\ skipped' = IF mode = "inc" THEN skipped \cup {page.id} ELSE skipped
                /\ UNCHANGED <<files, metadata, sync_json, new_files, updated_files,
                               saved_files, edited, clobbered, remote_dirty>>
    /\ i' = AfterPage(ok, i)
    /\ UNCHANGED <<now, remote, ctl, last_sync_time, data, modified_pages, push_locals,
                   steps, snap>>
    /\ UNCHANGED aside

\* A pull that returns while pages are left to process.
PullDone_Early == pc = "process"

\* The page loop has ended: the pull returns its lists.
PullDone == pc = "process" /\ i > Len(modified_pages)

\* The command ends: no command runs and the locals are gone.
ToIdle ==
    /\ pc' = "idle" /\ cmd' = "none" /\ mode' = "inc"
    /\ LocalsReset
    /\ run' = NewRun

\* sync_database lines 236-245 and the command line of incremental_sync:
\* push_local_changes is called when check_local_changes reports a file.
CheckThenPush(c, log) ==
    LET found == check_local_changes(sync_json, files)
    IN  IF found # <<>>
        THEN /\ pc' = "push"
             /\ cmd' = c
             /\ modified_files' = found
             /\ j' = 1
             /\ pushed_files' = <<>>
             /\ last_sync_time' = NoSync
             /\ data' = NoData
             /\ modified_pages' = <<>>
             /\ metadata' = NoMetadata
             /\ i' = 1
             /\ updated_files' = <<>>
             /\ new_files' = <<>>
             /\ saved_files' = <<>>
             /\ run' = log
             /\ UNCHANGED mode
        ELSE ToIdle

\* What a pull command leaves for the next one to be compared with.
Snapshot ==
    IF run.tainted THEN NoSnap
    ELSE [valid |-> TRUE, mode |-> mode, ok |-> run.ok, files |-> files,
          hashes |-> Hashes(sync_json), synced |-> FALSE]

\* What a sync leaves for the next one: whether all its requests succeeded
\* with no edit on the service meanwhile.
SyncSnapshot == [NoSnap EXCEPT !.synced = run.ok /\ ~run.tainted]

\* A pull returns; in a sync the push phase follows the pull.
ReturnFromPull ==
    /\ PullDone
    /\ IF cmd = "sync"
       THEN /\ CheckThenPush("sync", [run EXCEPT !.last = "none"])
            /\ snap' = IF check_local_changes(sync_json, files) = <<>>
                       THEN SyncSnapshot ELSE NoSnap
       ELSE ToIdle /\ snap' = Snapshot
    /\ UNCHANGED <<env, steps, edited, clobbered, remote_dirty, skipped>>
    /\ UNCHANGED aside

(***************************************************************************)
(* Push: check_local_changes and push_local_changes.                       *)
(***************************************************************************)
\* The push command: check, then push what the check reports.
BeginPush ==
    /\ pc = "idle"
    /\ TakeStep
    /\ check_local_changes(sync_json, files) # <<>>
    /\ CheckThenPush("push", [NewRun EXCEPT !.known0 = DOMAIN sync_json.files])
    /\ snap' = NoSnap
    /\ UNCHANGED <<env, edited, clobbered, remote_dirty, skipped>>
    /\ UNCHANGED aside

\* One iteration of push_local_changes.  A file without a linked id is
\* skipped; otherwise update_page_content sends the body, and on success the
\* file is reported and the ledger file rewritten.
PushFile(success) ==
    /\ pc = "push"
    /\ j <= Len(modified_files)
    /\ LET filepath == modified_files[j]
           notion_id == extract_notion_id_from_frontmatter(files[filepath])
           content == extract_content_from_markdown(files[filepath])
           target == PagesWithId(notion_id)
           sent == notion_id # NoId
           done == sent /\ success /\ target # {}
       IN  /\ IF done
              THEN /\ remote' = [id \in Ids |->
                                   IF id \in target
                                   THEN UpdatedPage(remote[id], MarkdownToBlocks(content))
                                   ELSE remote[id]]
                   /\ pushed_files' = Append(pushed_files, filepath)
                   /\ edited' = edited \ ({notion_id} \cap DOMAIN sync_json.files)
                   /\ remote_dirty' = remote_dirty \ target
              ELSE UNCHANGED <<remote, pushed_files, edited, remote_dirty>>
           /\ sync_json' = IF sent
                           THEN LedgerAfterPush(done, sync_json, notion_id, files[filepath])
                           ELSE sync_json
           /\ run' = IF done
                     THEN [run EXCEPT !.last = "ok", !.pushed = @ \cup target]
                     ELSE IF sent
                     THEN [run EXCEPT !.last = "failed", !.ok = FALSE,
                                      !.push_failed = @ \cup {filepath}]
                     ELSE [run EXCEPT !.last = "skipped"]
    /\ j' = j + 1
    /\ UNCHANGED <<now, files, ctl, pull_locals, modified_files, steps,
                   clobbered, skipped, snap>>
    /\ UNCHANGED aside

\* The file loop has ended: push_local_changes returns pushed_files.
PushDone == pc = "push" /\ j > Len(modified_files)

ReturnFromPush ==
    /\ PushDone
    /\ ToIdle
    /\ snap' = IF cmd = "sync" THEN SyncSnapshot ELSE snap
    /\ UNCHANGED <<env, steps, edited, clobbered, remote_dirty, skipped>>
    /\ UNCHANGED aside

(***************************************************************************)
(* The environment: time, edits on the service, edits by the user.         *)
(***************************************************************************)
\* Time passes.  The commands read the clock and the service once per
\* phase, so the points where a change of either can alter what a command
\* does are between commands and between the answer to the query and
\* create_sync_metadata.
Tick ==
    /\ pc \in {"idle", "create_metadata"}
    /\ now < MaxTime
    /\ now' = now + 1
    /\ UNCHANGED <<remote, files, sync_json, ctl, pull_locals, push_locals, steps,
                   history>>
    /\ UNCHANGED aside

\* Somebody edits a page on the service.
RemoteEdit(id, blocks) ==
    /\ pc \in {"idle", "create_metadata"}
    /\ TakeStep
    /\ blocks # remote[id].blocks
    /\ remote' = [remote EXCEPT ![id].blocks = blocks, ![id].last_edited_time = now]
    /\ remote_dirty' = remote_dirty \cup {id}
    /\ skipped' = skipped \ {id}
    /\ snap' = NoSnap
    /\ run' = IF pc = "idle" THEN run ELSE [run EXCEPT !.tainted = TRUE]
    /\ UNCHANGED <<now, files, sync_json, ctl, pull_locals, push_locals,
                   edited, clobbered>>
    /\ UNCHANGED aside

\* The text of a file up to and including the blank line after its header.
HeaderOf(content) ==
    LET end_frontmatter == Find(content, Delim, 3)
    IN  SubSeq(content, 1, end_frontmatter + 3) \o <<NL, NL>>

\* The user rewrites the body of a file, between two commands.
LocalEdit(filepath, body) ==
    /\ pc = "idle"
    /\ TakeStep
    /\ filepath \in DOMAIN files
    /\ files[filepath] # HeaderOf(files[filepath]) \o body
    /\ files' = [files EXCEPT ![filepath] = HeaderOf(files[filepath]) \o body]
    /\ edited' = edited \cup EntriesOf(sync_json, filepath)
    /\ snap' = NoSnap
    /\ UNCHANGED <<now, remote, sync_json, ctl, pull_locals, push_locals,
                   run, clobbered, remote_dirty, skipped>>
    /\ UNCHANGED aside

\* The user deletes a file, between two commands.
DeleteFile(filepath) ==
    /\ pc = "idle"
    /\ TakeStep
    /\ filepath \in DOMAIN files
    /\ files' = [p \in DOMAIN files \ {filepath} |-> files[p]]
    /\ edited' = edited \cup EntriesOf(sync_json, filepath)
    /\ snap' = NoSnap
    /\ UNCHANGED <<now, remote, sync_json, ctl, pull_locals, push_locals,
                   run, clobbered, remote_dirty, skipped>>
    /\ UNCHANGED aside

\* The filenames the titles give.
Paths == {Filename(t[id]) : t \in TitleChoices, id \in Ids}

Next ==
    \/ \E c \in {"pull", "sync"}, ok \in BOOLEAN : BeginIncrementalPull(c, ok)
    \/ \E c \in {"pull", "sync"}, ok \in BOOLEAN : BeginFullPull(c, ok)
    \/ \E ok \in BOOLEAN : Paginate(ok)
    \/ CreateMetadata
    \/ \E ok \in BOOLEAN : ProcessPage(ok)
    \/ ReturnFromPull
    \/ BeginPush
    \/ \E success \in BOOLEAN : PushFile(success)
    \/ ReturnFromPush
    \/ Tick
    \/ \E id \in Ids, blocks \in BlockChoices : RemoteEdit(id, blocks)
    \/ \E filepath \in Paths, body \in LocalBodies : LocalEdit(filepath, body)
    \/ \E filepath \in Paths : DeleteFile(filepath)

Spec == Init /\ [][Next]_vars

(***************************************************************************)
(* The pull command as a running program.  Only the pull command is run,    *)
(* while the service is edited and time passes.  A command that has a next  *)
(* statement executes it: a request blocks until it is answered or fails.   *)
(***************************************************************************)
PullNext ==
    \/ \E ok \in BOOLEAN : BeginIncrementalPull("pull", ok)
    \/ \E ok \in BOOLEAN : BeginFullPull("pull", ok)
    \/ \E ok \in BOOLEAN : Paginate(ok)
    \/ CreateMetadata
    \/ \E ok \in BOOLEAN : ProcessPage(ok)
    \/ ReturnFromPull
    \/ Tick
    \/ \E id \in Ids, blocks \in BlockChoices : RemoteEdit(id, blocks)

SpecLive ==
    /\ Init
    /\ [][PullNext]_vars
    /\ WF_vars(\E ok \in BOOLEAN : Paginate(ok))
    /\ WF_vars(CreateMetadata)
    /\ WF_vars(\E ok \in BOOLEAN : ProcessPage(ok))
    /\ WF_vars(ReturnFromPull)

(***************************************************************************)
(* The codec on its own: a page is rendered as save_page_to_file renders   *)
(* it, and the text is parsed as push_local_changes parses it.             *)
(***************************************************************************)
\* The titles, timestamps and blocks a page is drawn from: a plain title, a
\* title that contains the delimiter, no title at all.
CodecTitles == { <<"T">>, <<"a", "-", "-", "-", "b">>, <<>> }
CodecBlocks ==
    BlockChoices \cup
    { <<>>,
      <<Block("paragraph", <<"p">>), Block("heading_2", <<"h">>)>>,
      <<Block("heading_1", <<"a">>), Block("divider", <<"d">>), Block("heading_3", <<"b">>)>>,
      <<Block("bulleted_list_item", <<"u">>), Block("numbered_list_item", <<"n">>),
        [Block("to_do", <<"t">>) EXCEPT !.checked = TRUE], Block("to_do", <<"o">>)>>,
      <<[Block("code", <<"c">>) EXCEPT !.language = <<"p", "y">>], Block("divider", <<>>)>>,
      <<Block("heading_1", <<>>), Block("paragraph", <<" ", "q">>)>>,
      <<Block("paragraph", <<"#", " ", "x">>), Block("paragraph", <<>>)>> }

CodecInit ==
    /\ EngineInit
    /\ torn = FALSE
    /\ procs = NoProcs
    /\ \E id \in Ids, title \in CodecTitles, t \in 0..MaxTime, blocks \in CodecBlocks :
          codec = [NoCodec EXCEPT
                     !.stage = "page",
                     !.page = [id |-> id, title |-> title, last_edited_time |-> t],
                     !.blocks = blocks]

\* save_page_to_file renders the page.
CodecSave ==
    /\ codec.stage = "page"
    /\ codec' = [codec EXCEPT !.stage = "saved",
                              !.text = FullContent(codec.page, codec.blocks)]
    /\ UNCHANGED <<env, ctl, pull_locals, push_locals, steps, history, torn, procs>>

\* push_local_changes parses the text: the id, then the body.
CodecParse ==
    /\ codec.stage = "saved"
    /\ codec' = [codec EXCEPT
                    !.stage = "parsed",
                    !.notion_id = extract_notion_id_from_frontmatter(codec.text),
                    !.content = extract_content_from_markdown(codec.text)]
    /\ UNCHANGED <<env, ctl, pull_locals, push_locals, steps, history, torn, procs>>

\* update_page_content turns the body into the blocks it sends.
CodecPush ==
    /\ codec.stage = "parsed"
    /\ codec' = [codec EXCEPT !.stage = "pushed",
                              !.children = MarkdownToBlocks(codec.content)]
    /\ UNCHANGED <<env, ctl, pull_locals, push_locals, steps, history, torn, procs>>

CodecNext == CodecSave \/ CodecParse \/ CodecPush

SpecCodec == CodecInit /\ [][CodecNext]_vars

(***************************************************************************)
(* A command whose process is terminated.  The ledger file is written by   *)
(* open(metadata_path, "w"), which empties it, and json.dump, which writes *)
(* the document piece by piece: a process that ends in between leaves the  *)
(* beginning of a document.  sync_json keeps its value then, and torn says *)
(* that the file does not hold it.                                         *)
(***************************************************************************)
\* The process ends between two steps of a command.
Terminate ==
    /\ pc # "idle"
    /\ ~torn
    /\ ToIdle
    /\ snap' = NoSnap
    /\ UNCHANGED <<env, steps, edited, clobbered, remote_dirty, skipped, codec, torn, procs>>

\* The process ends while update_sync_metadata writes the ledger file: the
\* file of the page is written, the ledger file is cut short.
TerminateInPullWrite ==
    /\ pc = "process"
    /\ i <= Len(modified_pages)
    /\ ~torn
    /\ LET page == modified_pages[i]
           filepath == Filename(page.title)
           full_content == FullContent(page, remote[page.id].blocks)
       IN  files' = save_page_to_file(files, filepath, full_content)
    /\ torn' = TRUE
    /\ ToIdle
    /\ snap' = NoSnap
    /\ UNCHANGED <<now, remote, sync_json, steps, edited, clobbered, remote_dirty,
                   skipped, codec, procs>>

\* The process ends while push_local_changes writes the ledger file: the
\* page is updated, the ledger file is cut short.
TerminateInPushWrite ==
    /\ pc = "push"
    /\ j <= Len(modified_files)
    /\ ~torn
    /\ LET filepath == modified_files[j]
           notion_id == extract_notion_id_from_frontmatter(files[filepath])
           content == extract_content_from_markdown(files[filepath])
           target == PagesWithId(notion_id)
       IN  /\ notion_id # NoId
           /\ target # {}
           /\ remote' = [id \in Ids |->
                           IF id \in target
                           THEN UpdatedPage(remote[id], MarkdownToBlocks(content))
                           ELSE remote[id]]
    /\ torn' = TRUE
    /\ ToIdle
    /\ snap' = NoSnap
    /\ UNCHANGED <<now, files, sync_json, steps, edited, clobbered, remote_dirty,
                   skipped, codec, procs>>

\* A command started over a ledger file that is cut short: json.load raises
\* in the first function that reads the ledger, before anything is written.
LoadFails ==
    /\ pc = "idle"
    /\ torn
    /\ TakeStep
    /\ UNCHANGED <<env, ctl, pull_locals, push_locals, history, aside>>

CrashNext ==
    \/ ~torn /\ Next
    \/ Terminate
    \/ TerminateInPullWrite
    \/ TerminateInPushWrite
    \/ LoadFails

SpecCrash == Init /\ [][CrashNext]_vars

(***************************************************************************)
(* Two sync processes started on one directory.  Each runs the pull of     *)
(* sync_database with locals of its own; the files, the ledger file and    *)
(* the service are shared.  Nothing in the code locks the ledger file.     *)
(***************************************************************************)
\* A ledger write that keeps the entries the file holds and memory lacks.
LedgerWritten_Merged(md, on_disk) ==
    [md EXCEPT !.files = md.files @@ on_disk.files,
               !.order = md.order \o SelectSeq(on_disk.order,
                                        LAMBDA id : id \notin DOMAIN md.files)]

\* What json.dump(metadata, f) leaves in the ledger file: the in-memory
\* ledger, whatever the file held.
LedgerWritten(md, on_disk) == md

\* incremental_pull up to the query: last sync time, then the pages
\* modified since (all requests of the query answered).
TwoBegin(p) ==
    /\ procs[p].pc = "idle"
    /\ procs' = [procs EXCEPT ![p].pc = "create_metadata",
                              ![p].modified_pages = Matching(get_last_sync_time)]
    /\ UNCHANGED <<env, ctl, pull_locals, push_locals, steps, history, codec, torn>>

\* create_sync_metadata: the process loads the ledger into its memory.
TwoCreateMetadata(p) ==
    /\ procs[p].pc = "create_metadata"
    /\ procs' = [procs EXCEPT ![p].pc = "process",
                              ![p].metadata = create_sync_metadata,
                              ![p].i = 1]
    /\ UNCHANGED <<env, ctl, pull_locals, push_locals, steps, history, codec, torn>>

\* One iteration of the page loop of process p.
TwoProcessPage(p, ok) ==
    /\ procs[p].pc = "process"
    /\ procs[p].i <= Len(procs[p].modified_pages)
    /\ LET page == procs[p].modified_pages[procs[p].i]
           filepath == Filename(page.title)
           full_content == FullContent(page, remote[page.id].blocks)
           saved == save_page_to_file(files, filepath, full_content)
           content_hash == calculate_content_hash(saved[filepath])
           md == update_sync_metadata(procs[p].metadata, page.id, filepath,
                                      content_hash, page.last_edited_time)
       IN  IF ok
           THEN /\ files' = saved
                /\ sync_json' = LedgerWritten(md, sync_json)
                /\ procs' = [procs EXCEPT ![p].metadata = md,
                                          ![p].i = AfterPage(ok, @),
                                          ![p].recorded = @ \cup {page.id}]
           ELSE /\ procs' = [procs EXCEPT ![p].i = AfterPage(ok, @)]
                /\ UNCHANGED <<files, sync_json>>
    /\ UNCHANGED <<now, remote, ctl, pull_locals, push_locals, steps, history,
                   codec, torn>>

\* The page loop of process p has ended; with files written by the pull
\* just now, check_local_changes finds nothing to push and the process ends.
TwoReturn(p) ==
    /\ procs[p].pc = "process"
    /\ procs[p].i > Len(procs[p].modified_pages)
    /\ procs' = [procs EXCEPT ![p].pc = "done"]
    /\ UNCHANGED <<env, ctl, pull_locals, push_locals, steps, history, codec, torn>>

TwoNext ==
    \E p \in Procs :
        \/ TwoBegin(p)
        \/ TwoCreateMetadata(p)
        \/ \E ok \in BOOLEAN : TwoProcessPage(p, ok)
        \/ TwoReturn(p)

SpecTwo == Init /\ [][TwoNext]_vars

(***************************************************************************)
(* The sync engine with a user who also rewrites whole files, header       *)
(* included.                                                               *)
(***************************************************************************)
\* Texts without a linked id: no opening delimiter; an opening delimiter
\* and an id line but no closing delimiter; a closed header without id line.
UnlinkedTexts ==
    { <<"z", NL>>,
      Concat(<<Delim, <<NL>>, <<"n", "o", "t", "i", "o", "n", "_", "i", "d", ":", " ">>,
               ID_B, <<NL, "z">>>>),
      Concat(<<Delim, <<NL, "t", ":", " ", "x", NL>>, Delim, <<NL, NL, "z">>>>) }

\* The user replaces the text of a file, between two commands.
Unlink(filepath, text) ==
    /\ pc = "idle"
    /\ TakeStep
    /\ filepath \in DOMAIN files
    /\ files[filepath] # text
    /\ files' = [files EXCEPT ![filepath] = text]
    /\ edited' = edited \cup EntriesOf(sync_json, filepath)
    /\ snap' = NoSnap
    /\ UNCHANGED <<now, remote, sync_json, ctl, pull_locals, push_locals,
                   run, clobbered, remote_dirty, skipped>>
    /\ UNCHANGED aside

UnlinkedNext ==
    \/ Next
    \/ \E filepath \in Paths, text \in UnlinkedTexts : Unlink(filepath, text)

SpecUnlinked == Init /\ [][UnlinkedNext]_vars

(***************************************************************************)
(* Properties.                                                             *)
(***************************************************************************)
\* The step is an iteration of push_local_changes whose update request
\* succeeded.
PushSucceeded == pc = "push" /\ Len(pushed_files') = Len(pushed_files) + 1

\* The ledger keys that name the page a file's header links.
LinkedEntries(ledger, filepath) ==
    {k \in DOMAIN ledger.files :
        HeaderId(k) = extract_notion_id_from_frontmatter(files[filepath])}

\* C1: when the update request for a pushed file succeeds, the ledger file
\* holds, for every entry pull recorded for the page the file's header links
\* (whatever the form of its id), the hash of the file's current content as
\* fingerprint and the current time as last-synced time.
C1_PushUpdatesLinkedEntry ==
    [][PushSucceeded =>
        \A k \in LinkedEntries(sync_json, modified_files[j]) :
            /\ k \in DOMAIN sync_json'.files
            /\ sync_json'.files[k].content_hash =
                   calculate_content_hash(files[modified_files[j]])
            /\ sync_json'.files[k].last_synced = now]_vars

\* The ledger entries whose file exists.
LiveEntries == {id \in DOMAIN sync_json.files : sync_json.files[id].local_path \in DOMAIN files}

\* The fingerprint of an entry is the hash of its file as it is now.
FingerprintCurrent(id) ==
    sync_json.files[id].content_hash =
        calculate_content_hash(files[sync_json.files[id].local_path])

\* C2 as stated: between operations, for every ledger entry whose file
\* exists, the fingerprint equals the hash of the file's content if and only
\* if the file was not edited locally since the entry was last synced.
C2_FingerprintIffNoEdit ==
    pc = "idle" =>
        \A id \in LiveEntries : FingerprintCurrent(id) <=> id \notin edited

\* C2, amended: between operations, for every ledger entry whose file exists,
\* if the file was neither edited locally nor written for another item since
\* the entry was last synced, the fingerprint equals the hash of the file's
\* content.
C2_FingerprintCurrentUnlessEdited ==
    pc = "idle" =>
        \A id \in LiveEntries :
            (id \notin edited /\ id \notin clobbered) => FingerprintCurrent(id)

\* C2 witness: between operations, the entry of ID_B is in step with a file
\* that holds the user's own text: the edit was pushed and recorded.
C2_Witness ==
    /\ pc = "idle"
    /\ ID_B \in LiveEntries
    /\ ID_B \notin edited \cup clobbered
    /\ extract_content_from_markdown(files[sync_json.files[ID_B].local_path]) = <<"z">>
    /\ FingerprintCurrent(ID_B)

\* The step ends a sync invocation in which every request succeeded and
\* nothing was edited on the service meanwhile.
SyncCompletes == cmd = "sync" /\ pc' = "idle" /\ run.ok /\ ~run.tainted

\* C3: when a page and its linked file were both changed since they were
\* last synced, the push of the next sync invocation overwrites the page with
\* the local version.
C3_SyncPushesLocalVersion ==
    [][SyncCompletes => run.conflict \subseteq run.pushed]_vars

\* The step is an iteration of push_local_changes whose update request was
\* sent and failed.
PushFailed ==
    /\ pc = "push"
    /\ j' = j + 1
    /\ extract_notion_id_from_frontmatter(files[modified_files[j]]) # NoId
    /\ pushed_files' = pushed_files

\* The paths check_local_changes reports for a ledger file and a directory.
Reported(ledger, fs) == Range(check_local_changes(ledger, fs))

\* C4: a failed update request leaves the ledger file as it was (no entry
\* changed, nothing written), adds nothing to the result of the push and does
\* not end the loop over the files; the file is still reported by
\* check_local_changes after the attempt and when the push returns, so the
\* next run pushes it again.
C4_FailedPushLeavesLedger ==
    [][/\ PushFailed =>
            /\ sync_json' = sync_json
            /\ files' = files
            /\ pc' = "push"
            /\ modified_files' = modified_files
            /\ modified_files[j] \in Reported(sync_json', files')
       /\ PushDone => run.push_failed \subseteq Reported(sync_json, files)]_vars

\* C4 witness: a push has returned after one file's request failed and
\* another file's request succeeded.
C4_Witness ==
    /\ PushDone
    /\ run.push_failed # {}
    /\ pushed_files # <<>>
    /\ run.push_failed \cap Range(pushed_files) = {}
    /\ run.push_failed \subseteq Reported(sync_json, files)

\* The step is an iteration of the page loop of a pull whose fetch failed.
FetchFailed == pc = "process" /\ i <= Len(modified_pages) /\ run'.last = "failed"

\* The positions of the batch whose fetch succeeded.
Fetched == {k \in DOMAIN modified_pages : modified_pages[k].id \notin run.fetch_failed}

\* The text a pull writes for the page at position k of the batch.
Pulled(k) == FullContent(modified_pages[k], remote[modified_pages[k].id].blocks)

\* C5: in a pull of either kind, a failed fetch changes neither a file nor
\* the ledger and the loop goes on; when the pull returns, every page of the
\* batch whose fetch succeeded is recorded in the ledger file with the hash of
\* the text written for it, its file holds that text (or the text of a later
\* page of the batch with the same filename), and a skipped page that was not
\* in the ledger before is not in it.
C5_FetchFailureIsolated ==
    [][/\ FetchFailed =>
            /\ sync_json' = sync_json
            /\ metadata' = metadata
            /\ pc' = "process"
            /\ i' = i + 1
       /\ PullDone =>
            /\ \A k \in Fetched :
                LET page == modified_pages[k]
                    filepath == Filename(page.title)
                IN  /\ page.id \in DOMAIN sync_json.files
                    /\ sync_json.files[page.id].local_path = filepath
                    /\ sync_json.files[page.id].content_hash =
                           calculate_content_hash(Pulled(k))
                    /\ filepath \in DOMAIN files
                    /\ \/ files[filepath] = Pulled(k)
                       \/ \E m \in Fetched :
                            /\ m > k
                            /\ Filename(modified_pages[m].title) = filepath
                            /\ files[filepath] = Pulled(m)
            /\ \A id \in run.fetch_failed \ run.known0 :
                id \notin DOMAIN sync_json.files]_vars

\* C5 witness: a pull returns after the fetch of its first page failed and
\* the second page was written and recorded; the first page is in no ledger.
C5_Witness ==
    /\ PullDone
    /\ Len(modified_pages) = 2
    /\ modified_pages[1].id \in run.fetch_failed
    /\ modified_pages[1].id \notin DOMAIN sync_json.files
    /\ modified_pages[2].id \in DOMAIN sync_json.files
    /\ files[Filename(modified_pages[2].title)] = Pulled(2)

\* C6: re-running the incremental pull is a working retry: when an
\* incremental pull in which every request succeeded returns, no page that an
\* earlier incremental pull skipped for a failed fetch is still waiting to be
\* written (unless it was edited on the service again).
C6_RerunRetriesSkipped ==
    (PullDone /\ mode = "inc" /\ run.ok /\ ~run.tainted) => skipped = {}

\* No two pages have titles that give one filename.
NoCollision == \A id \in Ids : ~Collides(id)

\* A pull command returns, the command before it was the same pull
\* (incremental or full), and nothing was edited on either side since that
\* pull returned.
SecondPullDone == PullDone /\ cmd = "pull" /\ snap.valid /\ snap.mode = mode

\* Every file and every fingerprint is as the previous pull left it.
SameAsSnapshot ==
    /\ \A filepath \in DOMAIN snap.files :
            filepath \in DOMAIN files /\ files[filepath] = snap.files[filepath]
    /\ \A id \in DOMAIN snap.hashes :
            id \in DOMAIN sync_json.files
            /\ sync_json.files[id].content_hash = snap.hashes[id]

\* C7 as stated: a second pull with no change on the service since the first
\* (every request of both succeeding) leaves every fingerprint and the content
\* of every file as the first pull left them.
C7_PullTwiceChangesNothing ==
    (SecondPullDone /\ run.ok /\ snap.ok) => SameAsSnapshot

\* C7, amended: when no two pages share a filename and every request of the
\* first pull succeeded, a second pull with no change on the service since
\* the first leaves every fingerprint and the content of every file as the
\* first pull left them.
C7_PullTwiceChangesNothingUnlessCollision ==
    (SecondPullDone /\ snap.ok /\ NoCollision) => SameAsSnapshot

\* C7 witness: a second pull has written a page again, no filenames collide,
\* and files and fingerprints are as the first pull left them.
C7_Witness ==
    /\ SecondPullDone
    /\ snap.ok
    /\ NoCollision
    /\ run.written # {}
    /\ snap.files # Empty
    /\ SameAsSnapshot

\* The file an entry records.
FileOf(id) == sync_json.files[id].local_path

\* C8 as stated: for a ledger entry with fingerprint H for file F,
\* check_local_changes reports F when the content of F has a hash other than
\* H, and does not report F after F was edited back to content with hash H.
C8_ReportedIffFingerprintDiffers ==
    \A id \in LiveEntries :
        /\ ~FingerprintCurrent(id) => FileOf(id) \in Reported(sync_json, files)
        /\ (id \in edited /\ FingerprintCurrent(id))
                => FileOf(id) \notin Reported(sync_json, files)

\* C8, amended: check_local_changes reports F when the content of F has a
\* hash other than the fingerprint H of an entry for F; when F holds content
\* with hash H again, F is reported only if another entry records F with a
\* fingerprint that is not the hash of F.
C8_ReportedIffSomeFingerprintDiffers ==
    \A id \in LiveEntries :
        /\ ~FingerprintCurrent(id) => FileOf(id) \in Reported(sync_json, files)
        /\ (FingerprintCurrent(id) /\ FileOf(id) \in Reported(sync_json, files))
                => \E other \in LiveEntries \ {id} :
                        FileOf(other) = FileOf(id) /\ ~FingerprintCurrent(other)

\* C8 witness: the file of an entry was edited and edited back, its hash is
\* the fingerprint again, and check_local_changes does not report it.
C8_Witness ==
    \E id \in LiveEntries :
        /\ id \in edited
        /\ FingerprintCurrent(id)
        /\ FileOf(id) \notin Reported(sync_json, files)

\* The ids of a sequence of pages.
IdsOf(pages) == {pages[k].id : k \in DOMAIN pages}

\* C9: a pull asks for continuation pages until the service reports no more
\* and aggregates them before writing: no query request of a pull writes a
\* file or the ledger, no request follows once the page loop has started,
\* nothing is written while a continuation is outstanding, and when every
\* request was answered the batch is the whole result, page after page, and
\* every item of it is processed.
C9_AggregateBeforeWrite ==
    [][/\ (pc' = "paginate" \/ pc = "paginate")
            => (files' = files /\ sync_json' = sync_json)
       /\ pc \in {"create_metadata", "process"} => pc' # "paginate"
       /\ pc = "paginate" => (run.written = {} /\ run.fetch_failed = {})
       /\ (pc \in {"create_metadata", "process"} /\ run.query_ok)
            => modified_pages = run.matched
       /\ (PullDone /\ run.query_ok)
            => IdsOf(run.matched) = run.written \cup run.fetch_failed]_vars

\* C9 witness: a pull returns whose query took more than one request; every
\* item of its pages was written.
C9_Witness ==
    /\ PullDone
    /\ run.query_ok
    /\ Len(modified_pages) > PageSize
    /\ modified_pages = run.matched
    /\ run.written = IdsOf(run.matched)

\* The step is an iteration of the page loop that wrote and recorded a page.
PageWritten == pc = "process" /\ i <= Len(modified_pages) /\ run'.last = "ok"

\* C10: an incremental pull puts the file of each page it writes on exactly
\* one of its two lists, chosen by whether the ledger held the page's id
\* before this write: new_files when it did not, updated_files when it did;
\* when the pull returns the two lists together hold one path per written
\* page.
C10_NewOrUpdatedByPriorMembership ==
    [][/\ (PageWritten /\ mode = "inc") =>
            LET page == modified_pages[i]
                filepath == Filename(page.title)
                known == sync_json.exists /\ page.id \in DOMAIN sync_json.files
            IN  /\ page.id \in DOMAIN sync_json'.files
                /\ IF known
                   THEN /\ updated_files' = Append(updated_files, filepath)
                        /\ new_files' = new_files
                   ELSE /\ new_files' = Append(new_files, filepath)
                        /\ updated_files' = updated_files
       /\ (PullDone /\ mode = "inc") =>
            /\ Len(new_files) + Len(updated_files) = Cardinality(run.written)
            /\ \A k \in DOMAIN new_files :
                    \E id \in run.written \ run.known0 :
                        new_files[k] = Filename(remote[id].title)
            /\ \A k \in DOMAIN updated_files :
                    \E id \in run.written \cap run.known0 :
                        updated_files[k] = Filename(remote[id].title)]_vars

\* C10 witness: an incremental pull returns with a page on each list, one
\* that the ledger held before and one that it did not.
C10_Witness ==
    /\ PullDone
    /\ mode = "inc"
    /\ Len(new_files) = 1
    /\ Len(updated_files) = 1
    /\ run.written \ run.known0 # {}
    /\ run.written \cap run.known0 # {}

\* A pull returns that wrote both pages, the first titled "A/B" and the
\* second "A B".
PulledSlashAndSpace ==
    /\ PullDone
    /\ Len(modified_pages) = 2
    /\ run.written = Ids
    /\ modified_pages[1].title = <<"A", "/", "B">>
    /\ modified_pages[2].title = <<"A", " ", "B">>

\* C11 as stated: the titles "A/B" and "A B" give one filename, so after a
\* pull of both the one file holds the second page.
C11_SlashAndSpaceCollide ==
    PulledSlashAndSpace =>
        /\ Filename(modified_pages[1].title) = Filename(modified_pages[2].title)
        /\ files[Filename(modified_pages[1].title)] = Pulled(2)

\* C11, amended: the titles "A/B" and "A B" give two filenames, "A_B.md" and
\* "A B.md" (a space is kept), so after a pull of both each page has its own
\* file with its own text; "A/B" and "A_B" are titles that give one filename.
C11_SlashAndSpaceDistinct ==
    /\ Filename(<<"A", "/", "B">>) = Filename(<<"A", "_", "B">>)
    /\ PulledSlashAndSpace =>
        /\ Filename(modified_pages[1].title) = <<"A", "_", "B", ".", "m", "d">>
        /\ Filename(modified_pages[2].title) = <<"A", " ", "B", ".", "m", "d">>
        /\ files[Filename(modified_pages[1].title)] = Pulled(1)
        /\ files[Filename(modified_pages[2].title)] = Pulled(2)

\* C11 witness: a pull of the pages titled "A/B" and "A B" has returned and
\* the directory holds two files.
C11_Witness ==
    /\ PulledSlashAndSpace
    /\ Cardinality(DOMAIN files) = 2

\* A pull returns that wrote two pages whose titles give one filename.
PulledColliding ==
    /\ PullDone
    /\ Len(modified_pages) = 2
    /\ run.written = Ids
    /\ Filename(modified_pages[1].title) = Filename(modified_pages[2].title)

\* C12: when a pull has written two pages whose titles give one filename,
\* there is one file for the two, it holds the header and body of the page
\* processed later, and the ledger entries of both pages record its path
\* (the entry of the earlier page keeping the hash of the text that was
\* overwritten).
C12_LaterPageOverwrites ==
    PulledColliding =>
        LET filepath == Filename(modified_pages[2].title)
            first == modified_pages[1].id
            second == modified_pages[2].id
        IN  /\ DOMAIN files = {filepath}
            /\ files[filepath] = Pulled(2)
            /\ extract_notion_id_from_frontmatter(files[filepath]) = HeaderId(second)
            /\ {first, second} \subseteq DOMAIN sync_json.files
            /\ sync_json.files[first].local_path = filepath
            /\ sync_json.files[second].local_path = filepath
            /\ sync_json.files[first].content_hash = calculate_content_hash(Pulled(1))
            /\ sync_json.files[second].content_hash = calculate_content_hash(Pulled(2))

\* C12 witness: a pull of two pages with one filename has returned and the
\* file holds the text of the second page, which is not that of the first.
C12_Witness ==
    /\ PulledColliding
    /\ files[Filename(modified_pages[2].title)] = Pulled(2)
    /\ Pulled(2) # Pulled(1)

\* C13: the id parsed from the header rendered for a page is the id that
\* was rendered (the page id without hyphens), whatever the title and the
\* timestamp of the page are.
C13_HeaderIdRoundTrip ==
    codec.stage = "parsed" => codec.notion_id = HeaderId(codec.page.id)

\* C13 witness: the id was parsed from the header of a page whose id has a
\* hyphen and whose title contains the delimiter.
C13_Witness ==
    /\ codec.stage = "parsed"
    /\ codec.page.id = ID_A
    /\ codec.page.title = <<"a", "-", "-", "-", "b">>
    /\ codec.notion_id = <<"a", "1">>

\* The text occurs in s.
Contains(s, p) == Find(s, p, 0) # -1

\* C14: the body parsed from a file written by pull is the text that follows
\* the closing delimiter line (surrounding white space apart) and holds no
\* header field, whatever the title of the page is.
C14_BodyIsTextAfterHeader ==
    codec.stage = "parsed" =>
        /\ codec.content = Strip(notion_blocks_to_markdown(codec.blocks))
        /\ ~Contains(codec.content, Delim)

\* C15: update_sync_metadata is write-through: when it returns, the ledger
\* file equals the ledger in memory and holds the entry of the page (path,
\* fingerprint of the file as written, timestamp of the page, last_synced =
\* now) together with every entry that the ledger in memory and the ledger
\* file held before; from the first write of a pull on, file and memory agree.
C15_RecordIsWriteThrough ==
    [][/\ PageWritten =>
            LET page == modified_pages[i]
                filepath == Filename(page.title)
            IN  /\ sync_json' = metadata'
                /\ sync_json'.exists
                /\ page.id \in DOMAIN sync_json'.files
                /\ sync_json'.files[page.id] =
                       [local_path |-> filepath,
                        content_hash |-> calculate_content_hash(files'[filepath]),
                        last_edited_time |-> page.last_edited_time,
                        last_synced |-> now]
                /\ \A id \in (DOMAIN metadata.files \cup DOMAIN sync_json.files)
                                \ {page.id} :
                        /\ id \in DOMAIN sync_json'.files
                        /\ id \in DOMAIN metadata.files
                        /\ sync_json'.files[id] = metadata.files[id]
                        /\ id \in DOMAIN sync_json.files
                        /\ sync_json'.files[id] = sync_json.files[id]
       /\ (pc = "process" /\ run.written # {}) => sync_json = metadata]_vars

\* C15 witness: a pull has recorded its second page; the ledger file equals
\* the ledger in memory and holds both entries.
C15_Witness ==
    /\ pc = "process"
    /\ Cardinality(run.written) = 2
    /\ sync_json = metadata
    /\ DOMAIN sync_json.files = Ids
    /\ \A id \in Ids : sync_json.files[id].last_synced = now

\* C16: a command that is terminated, at whatever point, leaves a ledger
\* file that can be loaded and that holds what the last completed write of
\* an item left in it.
C16_TerminationKeepsLedger ==
    [][(Terminate \/ TerminateInPullWrite \/ TerminateInPushWrite)
          => (~torn' /\ sync_json' = sync_json)]_vars

\* The paths whose file differs between two sets of files.
Differing(f, g) ==
    {p \in DOMAIN f \cup DOMAIN g :
        ~(p \in DOMAIN f /\ p \in DOMAIN g /\ f[p] = g[p])}

\* C17: in one sync the phases do not interleave and items go one at a
\* time: the check is evaluated once, when every page of the pull has been
\* processed; before that no page is updated by the command; from then on no
\* file is written and the pull does nothing; every step handles at most one
\* page or file, writing at most one file and one ledger entry.
C17_PhasesDoNotInterleave ==
    [][cmd = "sync" =>
        /\ pc # "push" =>
              /\ run'.pushed = run.pushed
              /\ pushed_files' = pushed_files
              /\ pc' = "push" =>
                    /\ pc = "process" /\ i > Len(modified_pages)
                    /\ modified_files' = check_local_changes(sync_json, files)
                    /\ UNCHANGED <<files, sync_json>>
        /\ pc = "push" =>
              /\ pc' \in {"push", "idle"}
              /\ files' = files
              /\ pc' = "push" => UNCHANGED <<pull_locals, modified_files>>
              /\ run'.written \subseteq run.written
        /\ i' \in {i, i + 1} \/ pc' # pc
        /\ j' \in {j, j + 1} \/ pc' # pc
        /\ ~(i' # i /\ j' # j /\ pc' = pc)
        /\ Cardinality(Differing(files, files')) <= 1
        /\ Cardinality(Differing(sync_json.files, sync_json'.files)) <= 1
        /\ Cardinality(run'.pushed \ run.pushed) <= 1]_vars

\* C17 witness: a sync has pulled a page and, after that, pushed a file.
C17_Witness ==
    /\ cmd = "sync"
    /\ pc = "push"
    /\ run.written # {}
    /\ run.pushed # {}

\* Process p records a page in this step.
Records(p) == procs[p].pc = "process" /\ procs'[p].metadata # procs[p].metadata

\* C18: with two processes on one directory the last writer wins: each
\* write of the ledger file leaves exactly the in-memory ledger of the
\* process that writes, its earlier entries and the new one, and no entry
\* that only the file held.
C18_LastWriterWins ==
    [][\A p \in Procs :
          Records(p) =>
                  /\ sync_json' = procs'[p].metadata
                  /\ DOMAIN sync_json'.files =
                         DOMAIN procs[p].metadata.files \cup procs'[p].recorded
                  /\ \A id \in DOMAIN sync_json.files \ DOMAIN sync_json'.files :
                         id \notin DOMAIN procs[p].metadata.files]_vars

\* C18 witness: both processes have finished and the ledger file lacks the
\* entry of a page that one of them recorded.
C18_Witness ==
    /\ \A p \in Procs : procs[p].pc = "done"
    /\ \E p \in Procs : \E id \in procs[p].recorded : id \notin DOMAIN sync_json.files

\* What the readers of the ledger give while there is no ledger file: no
\* last sync time, no local change, and a ledger in memory without entries.
MissingLedgerReadAsEmpty ==
    /\ ~sync_json.exists =>
          /\ get_last_sync_time = NoSync
          /\ check_local_changes(sync_json, files) = <<>>
    /\ (pc = "create_metadata" /\ pc' = "process" /\ ~sync_json.exists) =>
          /\ metadata'.exists
          /\ metadata'.files = Empty
          /\ metadata'.order = <<>>

\* C19 as stated: a missing ledger file is read as an empty ledger, and a
\* pull that completes leaves a ledger file.
C19_MissingLedgerNotFatal ==
    [][/\ MissingLedgerReadAsEmpty
       /\ PullDone => sync_json.exists]_vars

\* What holds of C19 in the code: a missing ledger file is read as an empty
\* ledger; the first page a pull records creates the ledger file, with that
\* page as its only entry; a first pull that completes leaves a ledger file
\* exactly when it recorded a page.
C19_MissingLedgerNotFatalOnceRecorded ==
    [][/\ MissingLedgerReadAsEmpty
       /\ (PageWritten /\ ~sync_json.exists) =>
             /\ sync_json'.exists
             /\ DOMAIN sync_json'.files = {modified_pages[i].id}
             /\ sync_json'.last_sync = now
       /\ (PullDone /\ run.written # {}) => sync_json.exists
       /\ (PullDone /\ mode = "inc" /\ last_sync_time = NoSync) =>
             (sync_json.exists <=> run.written # {})]_vars

\* The case of C19 that the code does meet: a first pull, started without a ledger file, has completed
\* and the ledger file exists.
C19_FirstPullCreatedLedger ==
    /\ PullDone
    /\ mode = "inc"
    /\ last_sync_time = NoSync
    /\ run.written # {}
    /\ sync_json.exists
    /\ DOMAIN sync_json.files = run.written

\* A text has no linked id: it does not start with the delimiter, or no
\* delimiter follows, or no line of its header starts with "notion_id:".
NoLink(content) ==
    \/ ~StartsWith(content, Delim)
    \/ Find(content, Delim, 3) = -1
    \/ LET lines == Split(Strip(SubSeq(content, 4, Find(content, Delim, 3))), NL)
       IN  \A k \in DOMAIN lines :
              ~StartsWith(lines[k], <<"n", "o", "t", "i", "o", "n", "_", "i", "d", ":">>)

\* C20: push skips a file without linked id: no page is updated, the
\* ledger file stays as it is, the file is not in the result, and the loop
\* goes on with the next file.
C20_PushSkipsUnlinkedFile ==
    [][(pc = "push" /\ j <= Len(modified_files) /\ j' # j
            /\ NoLink(files[modified_files[j]])) =>
          /\ remote' = remote
          /\ sync_json' = sync_json
          /\ pushed_files' = pushed_files
          /\ run'.pushed = run.pushed
          /\ pc' = "push"
          /\ modified_files' = modified_files
          /\ j' = j + 1]_vars

\* C20 witness: push has skipped a file without linked id and pushed the
\* file after it.
C20_Witness ==
    /\ pc = "push"
    /\ j = 3
    /\ NoLink(files[modified_files[1]])
    /\ ~NoLink(files[modified_files[2]])
    /\ pushed_files = <<modified_files[2]>>
    /\ run.pushed # {}

\* The entries whose file exists and has another hash than the fingerprint.
DifferingEntries == {id \in LiveEntries : ~FingerprintCurrent(id)}

\* What C21 says of entries without file and of entries whose file differs:
\* the former are not reported, the latter are.
MissingSkippedDifferingReported ==
    /\ \A id \in DOMAIN sync_json.files \ LiveEntries :
          FileOf(id) \notin Reported(sync_json, files)
    /\ \A id \in DifferingEntries : FileOf(id) \in Reported(sync_json, files)

\* C21 as stated: check_local_changes skips the entries whose file no longer
\* exists, reports every entry whose file has another hash than the stored
\* one, and reports no path whose content has the hash of its entry.
C21_ReportsNoMatchingPath ==
    /\ MissingSkippedDifferingReported
    /\ \A id \in LiveEntries :
          FingerprintCurrent(id) => FileOf(id) \notin Reported(sync_json, files)

\* C21, amended: check_local_changes skips the entries whose file no longer
\* exists and reports every entry whose file has another hash than the stored
\* one; every reported path is the path of such an entry, once per such
\* entry, though the content may have the hash of another entry of that path.
C21_ReportsExactlyDifferingEntries ==
    /\ MissingSkippedDifferingReported
    /\ \A p \in Reported(sync_json, files) :
          \E id \in DifferingEntries : FileOf(id) = p
    /\ Len(check_local_changes(sync_json, files)) = Cardinality(DifferingEntries)

\* C21 witness: the file of one entry is gone and is not reported, the file
\* of another entry differs and is reported.
C21_Witness ==
    /\ \E id \in DOMAIN sync_json.files \ LiveEntries :
          FileOf(id) \notin Reported(sync_json, files)
    /\ \E id \in DifferingEntries : FileOf(id) \in Reported(sync_json, files)

\* A page passes the filter of an incremental pull with last sync time since.
PassesFilter(id, since) == since = NoSync \/ remote[id].last_edited_time >= since

C22_FilteredOut ==
    /\ pc = "create_metadata"
    /\ mode = "inc"
    /\ run.query_ok
    /\ \E id \in Ids : id \notin IdsOf(modified_pages)

\* The block types notion_blocks_to_markdown has a template for, with what
\* each template puts before and after the text of the block.
RecognizedTypes ==
    {"paragraph", "heading_1", "heading_2", "heading_3", "bulleted_list_item",
     "numbered_list_item", "to_do", "code"}

Before(b) ==
    IF b.type = "heading_1" THEN <<"#", " ">>
    ELSE IF b.type = "heading_2" THEN <<"#", "#", " ">>
    ELSE IF b.type = "heading_3" THEN <<"#", "#", "#", " ">>
    ELSE IF b.type = "bulleted_list_item" THEN <<"-", " ">>
    ELSE IF b.type = "numbered_list_item" THEN <<"1", ".", " ">>
    ELSE IF b.type = "to_do" /\ b.checked THEN <<"-", " ", "[", "x", "]", " ">>
    ELSE IF b.type = "to_do" THEN <<"-", " ", "[", " ", "]", " ">>
    ELSE IF b.type = "code" THEN Fence \o b.language \o <<NL>>
    ELSE <<>>

After(b) ==
    IF b.type \in {"bulleted_list_item", "numbered_list_item", "to_do"} THEN <<NL>>
    ELSE IF b.type = "code" THEN <<NL>> \o Fence \o <<NL, NL>>
    ELSE <<NL, NL>>

\* The text that is expected for the blocks from index k on.
RECURSIVE Expected(_, _)
Expected(blocks, k) ==
    IF k > Len(blocks) THEN <<>>
    ELSE (IF blocks[k].type \in RecognizedTypes
          THEN Before(blocks[k]) \o blocks[k].text \o After(blocks[k])
          ELSE <<>>) \o Expected(blocks, k + 1)

\* C23: the text written for a page is its header followed by the blocks in
\* their order, each by the template of its type; a block of another type
\* adds nothing, and the text is that of the page without such blocks.
C23_BlocksRenderedByTemplate ==
    codec.stage \in {"saved", "parsed", "pushed"} =>
        LET header == generate_frontmatter(codec.page.title, HeaderId(codec.page.id),
                                           TsStr(codec.page.last_edited_time))
            known == SelectSeq(codec.blocks, LAMBDA b : b.type \in RecognizedTypes)
        IN  /\ codec.text = header \o Expected(codec.blocks, 1)
            /\ codec.text = FullContent(codec.page, known)

\* C23 witness: a page with a block of an unrecognized type between two
\* headings has been written, and the text holds the two headings only.
C23_Witness ==
    /\ codec.stage = "saved"
    /\ Len(codec.blocks) = 3
    /\ codec.blocks[2].type \notin RecognizedTypes
    /\ From(codec.text, Len(codec.text) - 12) =
          <<"#", " ", "a", NL, NL, "#", "#", "#", " ", "b", NL, NL>>

\* The block C24 gives for one line of the body.
BlockOfLine(line) ==
    IF StartsWith(line, <<"#", " ">>) THEN Block("heading_1", From(line, 2))
    ELSE IF StartsWith(line, <<"#", "#", " ">>) THEN Block("heading_2", From(line, 3))
    ELSE IF StartsWith(line, <<"#", "#", "#", " ">>) THEN Block("heading_3", From(line, 4))
    ELSE Block("paragraph", Strip(line))

\* C24: update_page_content sends one block per non-blank line of the body,
\* in the order of the lines: a heading of level 1, 2 or 3 with the text
\* after the marker for a line that starts with "# ", "## " or "### ", and a
\* paragraph for every other line.
C24_OneBlockPerLine ==
    codec.stage = "pushed" =>
        LET lines == Split(codec.content, NL)
            kept == SelectSeq(lines, LAMBDA l : Strip(l) # <<>>)
        IN  /\ Len(codec.children) = Len(kept)
            /\ \A k \in DOMAIN kept :
                  /\ codec.children[k].type = BlockOfLine(kept[k]).type
                  /\ codec.children[k].type # "paragraph" =>
                        codec.children[k].text = BlockOfLine(kept[k]).text

\* C25: no edit on the service is missed by the incremental pulls: when the
\* query of an incremental pull has been answered completely, it has returned
\* every page that was edited on the service before the pull started and
\* that no pull has written, and no query has returned, since that edit.
C25_NoRemoteEditMissed ==
    (pc = "create_metadata" /\ mode = "inc" /\ run.query_ok /\ ~run.tainted) =>
        (remote_dirty \ skipped) \subseteq IdsOf(modified_pages)

\* A sync returns from its pull with every request answered, the sync before
\* it had all its requests succeed, and nothing was edited on either side
\* since.
LaterSyncPulled == cmd = "sync" /\ snap.synced /\ PullDone /\ run.ok /\ ~run.tainted

LinkedPages(id) == PagesWithId(extract_notion_id_from_frontmatter(files[FileOf(id)]))

\* The header of the file of every entry links the page of the entry, and a
\* successful push of a file updates the pages whose entries record the file
\* and no other page.
HeaderLinksEntry ==
    /\ \A id \in LiveEntries : LinkedPages(id) = {id}
    /\ PushSucceeded =>
          /\ {id \in Ids : remote'[id] # remote[id]}
                 \subseteq EntriesOf(sync_json, modified_files[j])
          /\ EntriesOf(sync_json, modified_files[j]) \subseteq run'.pushed

\* C27 as stated: after any pulls and pushes, the header of the file of a
\* ledger entry links the page that is the key of the entry, so that a file
\* reported under an entry is pushed to the page of that entry only.
C27_HeaderLinksEntry == [][HeaderLinksEntry]_vars

\* C27, amended: the same when no two pages share a filename.
C27_HeaderLinksEntryUnlessCollision == [][NoCollision => HeaderLinksEntry]_vars

\* C27 witness: no filenames collide, and the one file reported was pushed
\* to the page of its entry.
C27_Witness ==
    /\ NoCollision
    /\ pc = "push"
    /\ j = 2
    /\ Len(pushed_files) = 1
    /\ run.pushed = EntriesOf(sync_json, modified_files[1])
    /\ \A id \in run.pushed : LinkedPages(id) = {id}

\* A step of the page loop leaves the items the query did not return, and
\* those whose fetch failed, as they are: their entry, their file, and
\* whether check_local_changes reports the file.
UnwrittenUntouched ==
    pc = "process" =>
        \A id \in DOMAIN sync_json.files :
            (id \notin IdsOf(modified_pages) \/ id \in run'.fetch_failed) =>
                /\ id \in DOMAIN sync_json'.files
                /\ sync_json'.files[id] = sync_json.files[id]
                /\ FileOf(id) \in DOMAIN files <=> FileOf(id) \in DOMAIN files'
                /\ FileOf(id) \in DOMAIN files => files'[FileOf(id)] = files[FileOf(id)]
                /\ FileOf(id) \in Reported(sync_json, files)
                      => FileOf(id) \in Reported(sync_json', files')

\* C28 as stated: a pull changes nothing for the items it does not write
\* (not returned by the query, or fetch failed): file and ledger entry stay
\* as they are, and a pending local edit is still reported.
C28_PullLeavesUnwritten == [][UnwrittenUntouched]_vars

\* C28, amended: the same when no two pages share a filename.
C28_PullLeavesUnwrittenUnlessCollision == [][NoCollision => UnwrittenUntouched]_vars

\* C28 witness: a pull has written a page and failed to fetch another one,
\* whose file was edited by the user: the edit is still reported.
C28_Witness ==
    /\ PullDone
    /\ NoCollision
    /\ run.written # {}
    /\ \E id \in run.fetch_failed \cap edited :
          /\ id \in LiveEntries
          /\ id \notin run.written
          /\ FileOf(id) \in Reported(sync_json, files)

\* C29: a push modifies no file, adds and removes no ledger entry, leaves
\* the last sync time of the ledger and the path and page timestamp of every
\* entry as they are, and changes an entry (its fingerprint and last-synced
\* time) only when the update request for the file of that entry succeeded.
C29_PushChangesOnlyPushedEntries ==
    [][pc = "push" =>
          /\ files' = files
          /\ sync_json'.exists = sync_json.exists
          /\ sync_json'.last_sync = sync_json.last_sync
          /\ sync_json'.order = sync_json.order
          /\ DOMAIN sync_json'.files = DOMAIN sync_json.files
          /\ \A id \in DOMAIN sync_json.files :
                /\ sync_json'.files[id].local_path = sync_json.files[id].local_path
                /\ sync_json'.files[id].last_edited_time =
                       sync_json.files[id].last_edited_time
                /\ sync_json'.files[id] # sync_json.files[id] =>
                      /\ PushSucceeded
                      /\ FileOf(id) = modified_files[j]
                      /\ sync_json'.files[id].content_hash =
                             calculate_content_hash(files[FileOf(id)])
                      /\ sync_json'.files[id].last_synced = now]_vars

\* C29 witness: a push has updated the entry of the one file it pushed, and
\* the ledger holds another entry.
C29_Witness ==
    /\ pc = "push"
    /\ NoCollision
    /\ j = 2
    /\ Len(pushed_files) = 1
    /\ Cardinality(DOMAIN sync_json.files) = 2
    /\ \E id \in run.pushed \cap DOMAIN sync_json.files :
          /\ FileOf(id) = modified_files[1]
          /\ FingerprintCurrent(id)
          /\ sync_json.files[id].last_synced = now
          /\ sync_json.last_sync < now

InPull == pc \in {"paginate", "create_metadata", "process"}

\* C31: a pull, full or incremental, finishes: a running pull leaves its
\* query, and from its page loop it returns; each step of the page loop
\* handles the next aggregated page, so that when the pull returns every
\* aggregated page was handled once; the query asks for a continuation only
\* after has_more = true, each continuation leaves fewer pages to deliver,
\* and a failed continuation request ends the query.
C31_PullTerminates ==
    /\ InPull ~> ~InPull
    /\ pc = "paginate" ~> pc = "create_metadata"
    /\ [][/\ (pc = "process" /\ pc' = "process") =>
                /\ i <= Len(modified_pages)
                /\ i' = i + 1
                /\ modified_pages' = modified_pages
                /\ run'.written \cup run'.fetch_failed =
                       run.written \cup run.fetch_failed \cup {modified_pages[i].id}
          /\ (pc = "process" /\ pc' # "process") =>
                /\ i = Len(modified_pages) + 1
                /\ run.written \cup run.fetch_failed = IdsOf(modified_pages)
          /\ pc' = "paginate" =>
                /\ data'.has_more
                /\ pc = "paginate" => Len(data'.next_cursor) < Len(data.next_cursor)
          /\ (pc = "paginate" /\ ~run'.query_ok) => pc' = "create_metadata"]_vars

\* C31 witness: a full pull whose query took two requests has handled both
\* pages and is about to return.
C31_Witness ==
    /\ PullDone
    /\ mode = "full"
    /\ run.query_ok
    /\ Len(modified_pages) = 2
    /\ run.written \cup run.fetch_failed = IdsOf(modified_pages)

\* A file after an edit of its header only: a line is added to the header,
\* the body stays as it is.
HeaderEdited(content) == SubSeq(content, 1, 4) \o <<"k", ":", "v", NL>> \o From(content, 4)

\* The directory after the header of one file was edited.
WithHeaderEdited(filepath) == [files EXCEPT ![filepath] = HeaderEdited(files[filepath])]

\* The fingerprint a pull stores is the hash of the whole file it wrote.
C32_PullStoresWholeFileHash ==
    [][PageWritten =>
        LET entry == sync_json'.files[modified_pages[i].id]
        IN  entry.content_hash = calculate_content_hash(files'[entry.local_path])]_vars

\* An edit of the header alone of a file whose entry is in step is reported
\* by check_local_changes.
C32_HeaderEditReported ==
    \A id \in LiveEntries :
        FingerprintCurrent(id) =>
            /\ extract_content_from_markdown(HeaderEdited(files[FileOf(id)])) =
                   extract_content_from_markdown(files[FileOf(id)])
            /\ FileOf(id) \in Range(check_local_changes(sync_json,
                                                        WithHeaderEdited(FileOf(id))))

\* After a successful push of a file the next check_local_changes does not
\* report the file.
C32_PushedFileThenUnchanged ==
    [][PushSucceeded =>
        modified_files[j] \notin Range(check_local_changes(sync_json', files'))]_vars

\* C32: pull, push and check_local_changes fingerprint the whole file, header
\* included: the fingerprint pull stores is the hash of the whole file, an
\* edit of the header alone is reported as a local change, and after a
\* successful push of a file the very next check_local_changes does not
\* report the file.
C32_OneFingerprintedText ==
    /\ C32_PullStoresWholeFileHash
    /\ [] C32_HeaderEditReported
    /\ C32_PushedFileThenUnchanged

\* The blocks are headings of level 1 to 3 and paragraphs only.
OnlyHeadingsAndParagraphs(blocks) ==
    \A k \in DOMAIN blocks :
        blocks[k].type \in {"heading_1", "heading_2", "heading_3", "paragraph"}

\* The tag and the text of each block, in order.
TagsAndTexts(blocks) == [k \in DOMAIN blocks |-> <<blocks[k].type, blocks[k].text>>]

\* C33: for a sequence of headings (level 1 to 3) and paragraphs, the blocks
\* update_page_content builds from the text notion_blocks_to_markdown renders
\* have the tags and texts of the sequence, whatever the texts are.
C33_BlocksRoundTrip ==
    (codec.stage = "pushed" /\ OnlyHeadingsAndParagraphs(codec.blocks)) =>
        TagsAndTexts(MarkdownToBlocks(notion_blocks_to_markdown(codec.blocks))) =
            TagsAndTexts(codec.blocks)

====
